---------------------------- MODULE Spec2Model ----------------------------
(***************************************************************************)
(* Model of the gesture-to-command control loop of gesture.py:             *)
(* the debouncer (get_stable_gesture), the orchestrator                    *)
(* (process_gestures), the connection health monitor                       *)
(* (check_esp32_connection) and the dispatcher (send_command).             *)
(*                                                                         *)
(* Python values are modelled as strings so that None, True and False can  *)
(* be compared with each other the way Python's == and != compare them.    *)
(***************************************************************************)
EXTENDS Integers, Sequences, FiniteSets, TLC

\* ------------------------------------------------------------------ values
None == "None"
PyTrue == "True"
PyFalse == "False"
PyBool == {PyTrue, PyFalse}

\* bool(x) of Python for the values the program handles
Truthy(x) == x = PyTrue

\* ------------------------------------------------- configuration constants
MAX_RETRIES == 2
CONNECTION_CHECK_INTERVAL == 5
\* maxlen of every deque of gesture_buffer
BUFFER_MAXLEN == 3
FRAMES_PER_CHECK == 150

\* the order in which process_gestures walks the fingers
FingerOrder == <<"thumb", "index", "middle", "ring", "pinky">>
Fingers == {FingerOrder[i] : i \in 1..Len(FingerOrder)}

\* ------------------------------------------------------------------ bounds
\* number of hand poses the classifier's output is drawn from
NumPoses == 3
\* the clock is followed up to this many seconds
MaxTime == 15
\* number of delivery threads followed
MaxThreads == 2

\* Hand poses, each the set of fingers detect_finger_states reports as up.
PoseList ==
    << {},
       {"index"},
       {"thumb", "index", "middle", "ring", "pinky"},
       {"thumb"},
       {"index", "middle"},
       {"pinky"},
       {"thumb", "pinky"} >>
Poses == {PoseList[i] : i \in 1..NumPoses}

\* detect_finger_states: the dict of five booleans returned for a pose
detect_finger_states(pose) ==
    [f \in Fingers |-> IF f \in pose THEN PyTrue ELSE PyFalse]

VARIABLES
    prev_states,            \* dict: finger or "all_down" -> None/True/False
    gesture_buffer,         \* dict: finger -> deque(maxlen=3) of booleans
    esp32_connected,        \* cached reachability flag
    last_connection_check,  \* time of the last probe
    now,                    \* time.time()
    threads,                \* the delivery threads started by send_command,
                            \* in the order they were started
    rxlog,                  \* controller side: the threads whose request it
                            \* has received, in order of receipt
    sent,                   \* endpoints passed to send_command by the last
                            \* process_gestures call, in call order
    probe,                  \* what the last check_esp32_connection call did:
                            \* whether it probed, what the request did,
                            \* the flag before the call, what the call
                            \* returned and logged, and when the last
                            \* real probe was
    hist,                   \* observer: the last BUFFER_MAXLEN processed cycles
    ncycles,                \* observer: processed cycles since start, saturating
    seen_unanimous,         \* observer: fingers whose window was once full
                            \* and unanimous
    pc,                     \* main(): "start" before the call at line 228,
                            \* "loop" in the while loop
    frame_count,            \* main(): frames read so far, modulo
                            \* FRAMES_PER_CHECK (the loop reads no more of it)
    recovered               \* environment: the controller answers every
                            \* status probe from now on with 200

ctlVars == <<prev_states, gesture_buffer, sent>>
connVars == <<esp32_connected, last_connection_check, probe>>
netVars == <<threads, rxlog>>
obsVars == <<hist, ncycles, seen_unanimous>>
mainVars == <<pc, frame_count, recovered>>
vars == <<prev_states, gesture_buffer, esp32_connected, last_connection_check,
          now, threads, rxlog, sent, probe, hist, ncycles, seen_unanimous,
          pc, frame_count, recovered>>

\* ---------------------------------------------------------------- debouncer
\* a full window that discards the new entry instead of the oldest
deque_append_keep_oldest(buf, x) ==
    IF Len(buf) = BUFFER_MAXLEN THEN buf ELSE Append(buf, x)

\* deque(maxlen=3).append: the oldest entry is discarded on overflow
deque_append(buf, x) ==
    IF Len(buf) = BUFFER_MAXLEN THEN Append(Tail(buf), x) ELSE Append(buf, x)

\* all(buf) or not any(buf)
Unanimous(buf) ==
    \/ \A i \in 1..Len(buf) : Truthy(buf[i])
    \/ ~ \E i \in 1..Len(buf) : Truthy(buf[i])

\* a debouncer that forgets to wait for a full window
get_stable_gesture_any_length(buf, prev) ==
    IF Unanimous(buf) THEN buf[Len(buf)] ELSE prev

\* a debouncer that forgets the recorded value on a window that is not
\* full and unanimous
get_stable_gesture_forgetful(buf, prev) ==
    IF Len(buf) = BUFFER_MAXLEN /\ Unanimous(buf)
    THEN buf[Len(buf)]
    ELSE None

\* get_stable_gesture after its append: buf is the finger's window with the
\* current reading appended, prev is prev_states.get(finger)
get_stable_gesture(buf, prev) ==
    IF Len(buf) = BUFFER_MAXLEN /\ Unanimous(buf)
    THEN buf[Len(buf)]
    ELSE prev

\* ------------------------------------------------------------- orchestrator
\* on and off exchanged
FingerEndpoint_swapped(f, s) ==
    IF Truthy(s) THEN <<f, "off">> ELSE <<f, "on">>

\* the endpoint sent for a finger whose stable state is s
FingerEndpoint(f, s) == IF Truthy(s) THEN <<f, "on">> ELSE <<f, "off">>
AllOff == <<"all", "off">>

\* level-triggered dispatch: every determined state is sent in every cycle
FingerChanged_level(stable, prev, f) == stable[f] /= None

\* a raised finger is sent in every cycle, a lowered one on change
FingerChanged_up(stable, prev, f) ==
    Truthy(stable[f]) \/ (stable[f] /= prev[f] /\ stable[f] /= None)

\* the condition of each "if" of lines 169-182
FingerChanged(stable, prev, f) == stable[f] /= prev[f] /\ stable[f] /= None

\* all_down only when every finger is known to be down
AllDown_determined(stable) == \A f \in Fingers : stable[f] = PyFalse

\* line 166: not any(stable_states.values())
AllDown(stable) == ~ \E f \in Fingers : Truthy(stable[f])

\* all/off only after all_down was recorded False
AllDownEdge_strict(all_down, prev) == all_down /\ prev["all_down"] = PyFalse

\* all/off in every cycle in which all fingers are down
AllDownEdge_level(all_down, prev) == all_down

\* the condition of line 184
AllDownEdge(all_down, prev) == all_down /\ ~ Truthy(prev["all_down"])

RECURSIVE FingerCommands(_, _, _)
FingerCommands(stable, prev, i) ==
    IF i > Len(FingerOrder) THEN <<>>
    ELSE LET f == FingerOrder[i]
             rest == FingerCommands(stable, prev, i + 1)
         IN  IF FingerChanged(stable, prev, f)
             THEN <<FingerEndpoint(f, stable[f])>> \o rest
             ELSE rest

LastN(s, n) == IF Len(s) <= n THEN s ELSE SubSeq(s, Len(s) - n + 1, Len(s))

\* a gate that never closes
Gated_never == FALSE

\* line 154: "if not esp32_connected: return"
Gated == ~ esp32_connected

process_gestures(pose) ==
    IF Gated
    THEN /\ sent' = <<>>
         /\ UNCHANGED <<prev_states, gesture_buffer>>
    ELSE LET current_states == detect_finger_states(pose)
             buf == [f \in Fingers |->
                        deque_append(gesture_buffer[f], current_states[f])]
             stable_states == [f \in Fingers |->
                        get_stable_gesture(buf[f], prev_states[f])]
             all_down == AllDown(stable_states)
             cmds == FingerCommands(stable_states, prev_states, 1)
                     \o (IF AllDownEdge(all_down, prev_states)
                         THEN <<AllOff>> ELSE <<>>)
         IN  /\ gesture_buffer' = buf
             /\ prev_states' = [k \in Fingers \cup {"all_down"} |->
                    IF k = "all_down"
                    THEN (IF all_down THEN PyTrue ELSE PyFalse)
                    ELSE stable_states[k]]
             /\ sent' = cmds

\* Observer of a process_gestures call: what the call read and did.
Observe(pose) ==
    IF Gated
    THEN UNCHANGED <<hist, ncycles, seen_unanimous>>
    ELSE /\ hist' = LastN(Append(hist,
                        [raw |-> detect_finger_states(pose),
                         before |-> prev_states,
                         sent |-> sent',
                         all_down |-> prev_states'["all_down"]]),
                        BUFFER_MAXLEN)
         /\ ncycles' = IF ncycles > BUFFER_MAXLEN THEN ncycles
                       ELSE ncycles + 1
         /\ seen_unanimous' = seen_unanimous \cup
                {f \in Fingers :
                    /\ Len(gesture_buffer'[f]) = BUFFER_MAXLEN
                    /\ Unanimous(gesture_buffer'[f])}

\* ----------------------------------------------------------- health monitor
\* what requests.get(".../status", timeout=1.0) can do
ProbeOutcomes == {"ok", "bad_status", "timeout", "refused"}

\* a cache that expires one second early
WithinInterval_short(current_time, last) ==
    current_time - last < CONNECTION_CHECK_INTERVAL - 1

\* line 58: the call is answered from the cache
WithinInterval(current_time, last) ==
    current_time - last < CONNECTION_CHECK_INTERVAL

\* the outcomes in which requests.get returns a response
Responds(outcome) == outcome \in {"ok", "bad_status"}

\* a probe that takes any response for reachability
StatusOk_any(outcome) == TRUE

\* line 64: response.status_code == 200
StatusOk(outcome) == outcome = "ok"

check_esp32_connection(outcome) ==
    IF WithinInterval(now, last_connection_check)
    THEN /\ probe' = [probed |-> FALSE, outcome |-> "none",
                      was |-> esp32_connected, ret |-> esp32_connected,
                      events |-> <<>>, at |-> probe.at]
         /\ UNCHANGED <<esp32_connected, last_connection_check>>
    ELSE /\ last_connection_check' = now
         /\ IF Responds(outcome)
            THEN /\ esp32_connected' = StatusOk(outcome)
                 /\ probe' = [probed |-> TRUE, outcome |-> outcome,
                              was |-> esp32_connected,
                              ret |-> esp32_connected',
                              events |-> IF esp32_connected'
                                         THEN <<"established">> ELSE <<>>,
                              at |-> <<now>>]
            ELSE /\ esp32_connected' = FALSE
                 /\ probe' = [probed |-> TRUE, outcome |-> outcome,
                              was |-> esp32_connected, ret |-> FALSE,
                              events |-> IF esp32_connected
                                         THEN <<"lost">> ELSE <<>>,
                              at |-> <<now>>]


\* time.time() advances by d seconds
Tick(d) ==
    /\ now + d <= MaxTime
    /\ now' = now + d
    /\ UNCHANGED <<ctlVars, connVars, netVars, obsVars, mainVars>>

\* --------------------------------------------------------------- dispatcher
\* what requests.get(".../led/<endpoint>", timeout=REQUEST_TIMEOUT) can do:
\* a 200 response, another status, Timeout before the request got through,
\* Timeout while waiting for the response, ConnectionError, another exception
SendOutcomes ==
    {"ok", "bad_status", "connect_timeout", "read_timeout", "refused", "error"}

\* requests.exceptions.Timeout
IsTimeout(outcome) == outcome \in {"connect_timeout", "read_timeout"}

\* the outcomes in which the controller has got the command
Reaches(outcome) == outcome \in {"ok", "read_timeout"}

\* the finger (or "all") an endpoint addresses
Target(endpoint) == endpoint[1]

\* threads that have not ended
Running == {i \in 1..Len(threads) : ~ threads[i].done}

\* send_command: one more daemon thread, started at once
send_command(ths, endpoint) ==
    Append(ths, [endpoint |-> endpoint,
                 outcomes |-> <<>>,
                 done |-> FALSE,
                 overlap |-> \E i \in 1..Len(ths) :
                                /\ ~ ths[i].done
                                /\ Target(ths[i].endpoint) = Target(endpoint)])

RECURSIVE StartThreads(_, _)
StartThreads(ths, cmds) ==
    IF cmds = <<>> THEN ths
    ELSE StartThreads(send_command(ths, Head(cmds)), Tail(cmds))

\* one iteration too many
MoreAttempts_inclusive(n) == n <= MAX_RETRIES

\* "for attempt in range(retries)": another iteration follows n attempts
MoreAttempts(n) == n < MAX_RETRIES

\* a loop without the return and the breaks
LoopsOn_always(outcome) == TRUE

\* a loop that also goes on after a connection error
LoopsOn_refused(outcome) ==
    outcome = "bad_status" \/ IsTimeout(outcome) \/ outcome = "refused"

\* a loop that goes on after a timeout only
LoopsOn_timeout_only(outcome) == IsTimeout(outcome)

\* the outcomes after which send() neither returns nor breaks
LoopsOn(outcome) == outcome = "bad_status" \/ IsTimeout(outcome)

\* a thread that clears the connection flag when its attempt fails
Attempt_marks_lost(i, outcome) ==
    /\ i \in Running
    /\ LET n == Len(threads[i].outcomes) + 1
       IN  threads' = [threads EXCEPT
                ![i].outcomes = Append(@, outcome),
                ![i].done = ~ (LoopsOn(outcome) /\ MoreAttempts(n))]
    /\ rxlog' = IF Reaches(outcome) THEN Append(rxlog, i) ELSE rxlog
    /\ esp32_connected' = (esp32_connected /\ outcome = "ok")
    /\ UNCHANGED <<ctlVars, last_connection_check, probe, obsVars, now,
                   mainVars>>

\* one iteration of the loop of send() in thread i
Attempt(i, outcome) ==
    /\ i \in Running
    /\ LET n == Len(threads[i].outcomes) + 1
       IN  threads' = [threads EXCEPT
                ![i].outcomes = Append(@, outcome),
                ![i].done = ~ (LoopsOn(outcome) /\ MoreAttempts(n))]
    /\ rxlog' = IF Reaches(outcome) THEN Append(rxlog, i) ELSE rxlog
    /\ UNCHANGED <<ctlVars, connVars, obsVars, now, mainVars>>

\* ------------------------------------------------------------ specification
Init ==
    /\ prev_states = [k \in Fingers \cup {"all_down"} |-> None]
    /\ gesture_buffer = [f \in Fingers |-> <<>>]
    /\ esp32_connected = FALSE
    /\ last_connection_check = 0
    /\ now = CONNECTION_CHECK_INTERVAL
    /\ threads = <<>>
    /\ rxlog = <<>>
    /\ sent = <<>>
    /\ probe = [probed |-> FALSE, outcome |-> "none", was |-> FALSE,
                ret |-> FALSE, events |-> <<>>, at |-> <<>>]
    /\ hist = <<>>
    /\ ncycles = 0
    /\ seen_unanimous = {}
    /\ pc = "start"
    /\ frame_count = 0
    /\ recovered = FALSE

\* One frame with a hand in it; the threads it starts are followed in SpecNet.
Gesture == \E pose \in Poses :
    /\ process_gestures(pose)
    /\ Observe(pose)
    /\ UNCHANGED <<connVars, netVars, now, mainVars>>

Check == \E outcome \in ProbeOutcomes :
    /\ check_esp32_connection(outcome)
    /\ UNCHANGED <<prev_states, gesture_buffer, sent, netVars, obsVars, now,
                   mainVars>>

\* The control thread; between two frames a whole check interval may pass.
Next == Gesture \/ Check \/ Tick(CONNECTION_CHECK_INTERVAL)

Spec == Init /\ [][Next]_vars

\* The health monitor alone, with the clock followed second by second.
NextHealth == Check \/ Tick(1)

SpecHealth == Init /\ [][NextHealth]_vars

\* The control thread together with its delivery threads and the controller,
\* from the steady state of a raised thumb: the controller was reachable at the
\* first probe, the thumb has been stable-up and the other fingers stable-down
\* for at least one further cycle, and the threads started on the way have
\* ended.  The index finger is then raised and lowered with the thumb held up,
\* so that every transition starts one thread.
InitNet ==
    /\ prev_states = [k \in Fingers \cup {"all_down"} |->
                        IF k = "thumb" THEN PyTrue ELSE PyFalse]
    /\ gesture_buffer = [f \in Fingers |->
                        IF f = "thumb" THEN <<PyTrue, PyTrue, PyTrue>>
                        ELSE <<PyFalse, PyFalse, PyFalse>>]
    /\ esp32_connected = TRUE
    /\ last_connection_check = CONNECTION_CHECK_INTERVAL
    /\ now = CONNECTION_CHECK_INTERVAL
    /\ threads = <<>>
    /\ rxlog = <<>>
    /\ sent = <<>>
    /\ probe = [probed |-> TRUE, outcome |-> "ok", was |-> FALSE,
                ret |-> TRUE, events |-> <<"established">>,
                at |-> <<CONNECTION_CHECK_INTERVAL>>]
    /\ hist = <<>>
    /\ ncycles = 0
    /\ seen_unanimous = {}
    /\ pc = "loop"
    /\ frame_count = BUFFER_MAXLEN
    /\ recovered = FALSE

NetPoses == {{"thumb"}, {"thumb", "index"}}

GestureNet == \E pose \in NetPoses :
    /\ process_gestures(pose)
    /\ Len(threads) + Len(sent') <= MaxThreads
    /\ threads' = StartThreads(threads, sent')
    /\ UNCHANGED <<connVars, rxlog, obsVars, now, mainVars>>

Deliver == \E i \in 1..MaxThreads : \E outcome \in SendOutcomes :
    Attempt(i, outcome)

NextNet == GestureNet \/ Deliver

SpecNet == InitNet /\ [][NextNet]_vars

\* ---------------------------------------------------------------- main loop
\* what hands.process can report with max_num_hands=1: no hand, or one hand
\* that is closed or points with the index finger
MainPoses == {PoseList[1], PoseList[2]}
HandLists == {<<>>} \cup {<<pose>> : pose \in MainPoses}

\* what a status probe can do: anything until the controller has recovered
StatusOutcomes == IF recovered THEN {"ok"} ELSE ProbeOutcomes

\* a check that never comes due
CheckDue_never(n) == n % FRAMES_PER_CHECK = FRAMES_PER_CHECK

\* line 286: frame_count % 150 == 0
CheckDue(n) == n % FRAMES_PER_CHECK = 0

\* line 228: the call before the loop
MainStart == \E outcome \in StatusOutcomes :
    /\ pc = "start"
    /\ pc' = "loop"
    /\ check_esp32_connection(outcome)
    /\ UNCHANGED <<ctlVars, netVars, obsVars, now, frame_count, recovered>>

\* lines 253-305: one iteration of the while loop
Frame == \E multi_hand_landmarks \in HandLists : \E outcome \in StatusOutcomes :
    /\ pc = "loop"
    /\ frame_count' = (frame_count + 1) % FRAMES_PER_CHECK
    /\ IF multi_hand_landmarks = <<>>
       THEN UNCHANGED ctlVars
       ELSE process_gestures(multi_hand_landmarks[1])
    /\ IF CheckDue(frame_count')
       THEN check_esp32_connection(outcome)
       ELSE UNCHANGED connVars
    /\ UNCHANGED <<netVars, obsVars, now, pc, recovered>>

\* the controller comes up for good
Recover ==
    /\ ~ recovered
    /\ recovered' = TRUE
    /\ UNCHANGED <<ctlVars, connVars, netVars, obsVars, now, pc, frame_count>>

\* time read in the loop, counted from the start of main()
Clock ==
    /\ pc = "loop"
    /\ Tick(CONNECTION_CHECK_INTERVAL)

NextMain == MainStart \/ Frame \/ Clock \/ Recover

\* the loop keeps reading frames and time goes on
SpecMain ==
    /\ Init
    /\ [][NextMain]_vars
    /\ WF_vars(MainStart)
    /\ WF_vars(Frame)
    /\ WF_vars(Clock)

\* ==================================================================== claims
\* a command for finger f is among the endpoints cmds
HasCmd(cmds, f) == \E i \in 1..Len(cmds) : cmds[i][1] = f

\* the window w holds BUFFER_MAXLEN equal entries
FullAgreeing(w) ==
    /\ Len(w) = BUFFER_MAXLEN
    /\ \A i, j \in 1..Len(w) : w[i] = w[j]

\* the most recent processed cycle
LastCycle == hist[Len(hist)]

\* C1: a finger's recorded StableState changes from one cycle to the next only
\* when its window, after the cycle's append, is full with all entries equal,
\* and then to that common value; with a window that is not full or not
\* unanimous the recorded value is kept.
T_C1 ==
    [][\A f \in Fingers :
          /\ prev_states'[f] /= prev_states[f] =>
                /\ FullAgreeing(gesture_buffer'[f])
                /\ prev_states'[f] = gesture_buffer'[f][1]
          /\ ~ FullAgreeing(gesture_buffer'[f]) =>
                prev_states'[f] = prev_states[f]]_vars

\* a cycle has turned a stable-up finger stable-down on a unanimous window,
\* while another finger kept its value on a window that is not unanimous
W_C1 ==
    /\ hist /= <<>>
    /\ \E f, g \in Fingers :
          /\ LastCycle.before[f] = PyTrue
          /\ prev_states[f] = PyFalse
          /\ ~ FullAgreeing(gesture_buffer[g])
          /\ prev_states[g] = PyTrue

\* C2: in every observation cycle a command is dispatched for a finger if and
\* only if the finger's new StableState differs from the recorded one and is
\* not None; so a StableState held over two cycles is sent in the first only.
T_C2 ==
    [][Gesture =>
          \A f \in Fingers :
              HasCmd(sent', f) <=>
                  (prev_states'[f] /= prev_states[f] /\ prev_states'[f] /= None)
      ]_vars

\* two consecutive cycles gave the same determined StableState for a finger:
\* the first dispatched its command, the second nothing for it
W_C2 ==
    /\ Len(hist) >= 2
    /\ \E f \in Fingers :
          /\ HasCmd(hist[Len(hist) - 1].sent, f)
          /\ LastCycle.before[f] = prev_states[f]
          /\ prev_states[f] /= None
          /\ ~ HasCmd(LastCycle.sent, f)

\* C3 as claimed: no command of any kind is dispatched until each finger has
\* had a full, unanimous window at least once.
CE_C3 == sent /= <<>> => seen_unanimous = Fingers

\* C3 amended: a command for a finger is dispatched only once that finger has
\* had a full, unanimous window; all/off is dispatched in the first processed
\* cycle, when every StableState is still None.
T_C3 ==
    /\ \A k \in 1..Len(hist) : \A f \in Fingers :
          HasCmd(hist[k].sent, f) => f \in seen_unanimous
    /\ ncycles = 1 => hist[1].sent = <<AllOff>>
    /\ \A f \in Fingers : prev_states[f] /= None => f \in seen_unanimous

\* a finger's command has been dispatched while another finger is still
\* waiting for its first unanimous window
W_C3 ==
    /\ hist /= <<>>
    /\ \E f \in Fingers : HasCmd(LastCycle.sent, f)
    /\ seen_unanimous /= Fingers

\* every endpoint of the controller's /led/ interface
Endpoints == (Fingers \X {"on", "off"}) \cup {AllOff}

\* how often endpoint e was dispatched over the cycles of hist
Dispatched(e) ==
    Cardinality({<<k, i>> \in (1..Len(hist)) \X (1..(Len(FingerOrder) + 1)) :
                    i <= Len(hist[k].sent) /\ hist[k].sent[i] = e})

\* the readings of the cycles of hist are those of pose, every time
AllRaw(pose) ==
    \A k \in 1..Len(hist) : hist[k].raw = detect_finger_states(pose)

\* the first three processed cycles have all read an index finger up alone
IndexScenario == ncycles = BUFFER_MAXLEN /\ AllRaw({"index"})

\* C4 as claimed: from the initial state, three cycles reading index up and
\* the other fingers down dispatch index/on once and nothing for the other
\* fingers, and all_down is false after each of the cycles.
CE_C4 ==
    IndexScenario =>
        /\ Dispatched(<<"index", "on">>) = 1
        /\ Dispatched(<<"index", "off">>) = 0
        /\ \A f \in Fingers \ {"index"} : \A v \in {"on", "off"} :
              Dispatched(<<f, v>>) = 0
        /\ \A k \in 1..Len(hist) : hist[k].all_down = PyFalse

\* C4 amended: in that scenario index/on is dispatched once, in the third
\* cycle, together with one off command for each of the other four fingers
\* (None -> False); all/off is dispatched in the first cycle; all_down is
\* true after the first and second cycle and false after the third.
T_C4 ==
    IndexScenario =>
        /\ hist[1].sent = <<AllOff>>
        /\ hist[2].sent = <<>>
        /\ hist[3].sent = << <<"thumb", "off">>, <<"index", "on">>,
                             <<"middle", "off">>, <<"ring", "off">>,
                             <<"pinky", "off">> >>
        /\ hist[1].all_down = PyTrue
        /\ hist[2].all_down = PyTrue
        /\ hist[3].all_down = PyFalse

\* the three cycles of the scenario have run
W_C4 == IndexScenario /\ prev_states["index"] = PyTrue

\* three cycles have read every finger down, the first of them starting with
\* all five fingers recorded stable-up
AllDownScenario ==
    /\ Len(hist) = BUFFER_MAXLEN
    /\ \A f \in Fingers : hist[1].before[f] = PyTrue
    /\ AllRaw({})

\* C5: from all five fingers stable-up, three cycles reading every finger down
\* dispatch the five off commands and all/off, each exactly once, and no
\* other command.
T_C5 ==
    AllDownScenario =>
        \A e \in Endpoints :
            Dispatched(e) = IF e[2] = "off" THEN 1 ELSE 0

\* the scenario has run, its commands dispatched in the last of the cycles
W_C5 == AllDownScenario /\ Len(LastCycle.sent) = Len(FingerOrder) + 1

\* C6: after every processed cycle the recorded all_down is true iff no
\* finger's recorded StableState is true, and all/off is dispatched in exactly
\* the cycles in which all_down is true and the previous record was not true.
T_C6 ==
    [][(Gesture /\ esp32_connected) =>
          /\ prev_states'["all_down"] \in PyBool
          /\ prev_states'["all_down"] = PyTrue <=>
                (\A f \in Fingers : prev_states'[f] /= PyTrue)
          /\ (\E i \in 1..Len(sent') : sent'[i] = AllOff) <=>
                (prev_states'["all_down"] = PyTrue
                 /\ prev_states["all_down"] /= PyTrue)
      ]_vars

\* all_down has become true again after having been recorded false, and the
\* cycle dispatched all/off
W_C6 ==
    /\ hist /= <<>>
    /\ LastCycle.before["all_down"] = PyFalse
    /\ prev_states["all_down"] = PyTrue
    /\ \E i \in 1..Len(sent) : sent[i] = AllOff

\* a real probe has been made, less than an interval before now
RecentProbe ==
    probe.at /= <<>> /\ now - probe.at[1] < CONNECTION_CHECK_INTERVAL

\* C7: check_esp32_connection probes only when at least
\* CONNECTION_CHECK_INTERVAL has passed since the previous probe; a call
\* within the interval makes no request, returns the cached flag and leaves
\* flag and timestamp as they are; whatever a probe's outcome, the next probe
\* is at least an interval later.
T_C7 ==
    [][Check =>
          /\ probe'.probed =>
                (probe.at = <<>>
                 \/ now - probe.at[1] >= CONNECTION_CHECK_INTERVAL)
          /\ RecentProbe =>
                /\ ~ probe'.probed
                /\ probe'.ret = esp32_connected
                /\ esp32_connected' = esp32_connected
                /\ last_connection_check' = last_connection_check
                /\ probe'.at = probe.at
      ]_vars

\* the last call was answered from the cache, some seconds after a probe that
\* was not the first one and that failed
W_C7 ==
    /\ ~ probe.probed
    /\ RecentProbe
    /\ now > probe.at[1]
    /\ probe.at[1] > CONNECTION_CHECK_INTERVAL
    /\ ~ esp32_connected

\* thread i has ended / the controller has received its request
Ended(i) == threads[i].done
Received(i) == \E k \in 1..Len(rxlog) : rxlog[k] = i
OnlyTimeouts(i) ==
    \A k \in 1..Len(threads[i].outcomes) :
        threads[i].outcomes[k] \in {"connect_timeout", "read_timeout"}

\* C8: a delivery thread whose every attempt times out makes exactly
\* MAX_RETRIES attempts and then ends; no thread makes more.
T_C8 ==
    \A i \in 1..Len(threads) :
        /\ Len(threads[i].outcomes) <= MAX_RETRIES
        /\ OnlyTimeouts(i) =>
              (Ended(i) <=> Len(threads[i].outcomes) = MAX_RETRIES)

\* a thread has ended after MAX_RETRIES timeouts
W_C8 ==
    \E i \in 1..Len(threads) :
        /\ Ended(i)
        /\ OnlyTimeouts(i)
        /\ Len(threads[i].outcomes) = MAX_RETRIES

\* the threads started for finger f, and the last of them
TargetThreads(f) ==
    {i \in 1..Len(threads) : Target(threads[i].endpoint) = f}
Latest(f) == CHOOSE j \in TargetThreads(f) : \A i \in TargetThreads(f) : i <= j

\* the places of thread i's first and last request in the order of receipt
Places(i) == {k \in 1..Len(rxlog) : rxlog[k] = i}
FirstPos(i) == CHOOSE k \in Places(i) : \A m \in Places(i) : k <= m
LastPos(i) == CHOOSE k \in Places(i) : \A m \in Places(i) : m <= k

\* both threads have ended and the controller has received both requests
BothDelivered(i, j) ==
    Ended(i) /\ Ended(j) /\ Received(i) /\ Received(j)

\* the command of thread j is the one for the recorded StableState of f
Corresponds(j, f) ==
    threads[j].endpoint[2] = (IF prev_states[f] = PyTrue THEN "on" ELSE "off")

\* the request the controller received last for finger f
LastReceived(f) ==
    CHOOSE j \in TargetThreads(f) :
        /\ Received(j)
        /\ \A i \in TargetThreads(f) : Received(i) => LastPos(i) <= LastPos(j)

\* C9 as claimed: of two commands dispatched for the same finger whose threads
\* run concurrently and both deliver, the later-dispatched one is received
\* last; with all threads ended the last received command for the finger is
\* the one for the recorded StableState.
CE_C9 ==
    \A f \in Fingers : \A i, j \in TargetThreads(f) :
        (i < j /\ threads[j].overlap /\ BothDelivered(i, j)) =>
            /\ LastPos(i) < LastPos(j)
            /\ (Running = {} /\ j = Latest(f)) => Corresponds(LastReceived(f), f)

\* C9 amended: the later-dispatched command is sure to be received last only
\* when no earlier thread for the finger was still running when it was
\* dispatched; then, with all threads ended, the last received command for the
\* finger is the one for the recorded StableState.
T_C9 ==
    \A f \in Fingers : \A j \in TargetThreads(f) :
        (~ threads[j].overlap /\ Ended(j) /\ Received(j)) =>
            /\ \A i \in TargetThreads(f) :
                  (i < j /\ Received(i)) => LastPos(i) < FirstPos(j)
            /\ (Running = {} /\ j = Latest(f)) =>
                  (LastReceived(f) = j /\ Corresponds(j, f))

\* two commands for a finger, the second dispatched after the first thread
\* had ended, have both been delivered
W_C9 ==
    \E f \in Fingers : \E i, j \in TargetThreads(f) :
        /\ i < j
        /\ ~ threads[j].overlap
        /\ BothDelivered(i, j)
        /\ Running = {}

\* the last command dispatched for finger f was dropped: its thread has ended
\* and the controller never received the request
Dropped(f) ==
    /\ TargetThreads(f) /= {}
    /\ Ended(Latest(f))
    /\ ~ Received(Latest(f))

\* C10 as claimed: after a command for a finger was dropped, an observation
\* cycle that leaves the finger's StableState unchanged sends the command
\* again.
CE_C10 ==
    [][\A f \in Fingers :
          (GestureNet /\ Dropped(f) /\ prev_states'[f] = prev_states[f]) =>
              HasCmd(sent', f)]_vars

\* C10 amended: a dropped command is not sent again while the finger's
\* StableState is unchanged: no cycle that keeps the StableState dispatches a
\* command for the finger, and the command stays dropped.
T_C10 ==
    [][\A f \in Fingers :
          (Dropped(f) /\ prev_states'[f] = prev_states[f]) =>
              /\ Dropped(f)'
              /\ GestureNet => ~ HasCmd(sent', f)]_vars

\* a command for the index finger was dropped, and a later cycle has run
\* without starting a thread
W_C10 ==
    /\ Dropped("index")
    /\ Running = {}
    /\ sent = <<>>

\* C11: a cycle run with the connection flag false dispatches nothing and
\* leaves the windows, the recorded StableStates and the recorded all_down as
\* they are; a cycle that dispatches a command runs with the flag true.
T_C11 ==
    [][Gesture =>
          /\ ~ esp32_connected =>
                /\ sent' = <<>>
                /\ gesture_buffer' = gesture_buffer
                /\ prev_states' = prev_states
          /\ sent' /= <<>> => esp32_connected
      ]_vars

\* the connection was lost after a cycle that dispatched commands, and a cycle
\* has run since without dispatching or recording anything
W_C11 ==
    /\ ~ esp32_connected
    /\ hist /= <<>>
    /\ LastCycle.sent /= <<>>
    /\ sent = <<>>
    /\ \A f \in Fingers :
          gesture_buffer[f][Len(gesture_buffer[f])] = LastCycle.raw[f]

\* the outcome of thread i's latest attempt
LastOutcome(i) == threads[i].outcomes[Len(threads[i].outcomes)]

\* C12: an attempt that fails with a connection error is the thread's last:
\* the thread has ended and no attempt follows it, also when fewer than
\* MAX_RETRIES attempts have been made.
T_C12 ==
    \A i \in 1..Len(threads) :
        \A k \in 1..Len(threads[i].outcomes) :
            threads[i].outcomes[k] = "refused" =>
                /\ k = Len(threads[i].outcomes)
                /\ Ended(i)

\* a thread has ended after a single attempt that met a connection error
W_C12 ==
    \E i \in 1..Len(threads) :
        /\ threads[i].outcomes = <<"refused">>
        /\ Len(threads[i].outcomes) < MAX_RETRIES
        /\ Ended(i)

\* C13 as stated: only an attempt that timed out is followed by another
\* attempt, and a thread whose latest attempt did not time out has ended.
CE_C13 ==
    \A i \in 1..Len(threads) :
        /\ \A k \in 1..(Len(threads[i].outcomes) - 1) :
              IsTimeout(threads[i].outcomes[k])
        /\ (threads[i].outcomes /= <<>> /\ ~ IsTimeout(LastOutcome(i)))
              => Ended(i)

\* C13, amended: only an attempt that timed out or that got a response with
\* a status other than 200 is followed by another attempt, and it is
\* followed by one whenever attempts remain; a thread whose latest attempt
\* got status 200, a connection error or another exception has ended.
T_C13 ==
    \A i \in 1..Len(threads) :
        /\ \A k \in 1..(Len(threads[i].outcomes) - 1) :
              threads[i].outcomes[k]
                  \in {"bad_status", "connect_timeout", "read_timeout"}
        /\ threads[i].outcomes /= <<>> =>
              IF LastOutcome(i) \in {"ok", "refused", "error"}
              THEN Ended(i)
              ELSE Ended(i) <=> Len(threads[i].outcomes) = MAX_RETRIES

\* a thread made a second attempt after a response with a status other
\* than 200
W_C13 ==
    \E i \in 1..Len(threads) :
        /\ Len(threads[i].outcomes) = 2
        /\ threads[i].outcomes[1] = "bad_status"

\* C14: after a call of check_esp32_connection that made a request, the
\* flag is true exactly if the request got a response with status 200, whatever
\* the flag was before, and the call returned the new flag.
T_C14 ==
    [][(Check /\ probe'.probed) =>
          /\ esp32_connected' = (probe'.outcome = "ok")
          /\ probe'.outcome \in {"bad_status", "timeout", "refused"}
                => ~ esp32_connected'
          /\ probe'.ret = esp32_connected'
      ]_vars

\* a probe that was refused has taken the flag from true to false
W_C14 ==
    /\ probe.probed
    /\ probe.outcome = "refused"
    /\ probe.events = <<"lost">>
    /\ ~ esp32_connected
    /\ ~ probe.ret

\* C15 as stated: a call that takes the flag from true to false logs "lost",
\* one that takes it from false to true logs "established", and one that
\* leaves the flag as it was logs nothing.
CE_C15 ==
    [][Check =>
          probe'.events =
              IF esp32_connected /\ ~ esp32_connected' THEN <<"lost">>
              ELSE IF ~ esp32_connected /\ esp32_connected'
                   THEN <<"established">>
                   ELSE <<>>
      ]_vars

\* C16: whatever the control thread and the other delivery threads have done
\* so far, a step of a delivery thread, whatever the outcome of its attempt,
\* leaves the recorded StableStates and all_down, the debounce windows, the
\* connection flag, the time of the last probe and the orchestrator's record of
\* what it dispatched as they are.
T_C16 ==
    [][Deliver =>
          /\ prev_states' = prev_states
          /\ gesture_buffer' = gesture_buffer
          /\ esp32_connected' = esp32_connected
          /\ last_connection_check' = last_connection_check
          /\ sent' = sent
      ]_vars

\* two threads are in flight at once, one of which has had a failed attempt,
\* and the flag and the recorded state of the finger are as they were
\* when the command was dispatched
W_C16 ==
    \E i, j \in 1..Len(threads) :
        /\ i /= j
        /\ ~ Ended(j)
        /\ threads[i].outcomes /= <<>>
        /\ LastOutcome(i) \in {"refused", "error", "connect_timeout"}
        /\ esp32_connected
        /\ \E f \in Fingers :
              Target(threads[i].endpoint) = f /\ Corresponds(i, f)

\* the last BUFFER_MAXLEN processed cycles all read v for finger f
ReadThrice(f, v) ==
    /\ Len(hist) = BUFFER_MAXLEN
    /\ \A k \in 1..Len(hist) : hist[k].raw[f] = v

\* C17: when the last three processed cycles gave the same raw reading v for
\* a finger, the finger's recorded StableState is v, whatever its window held
\* before those cycles.
T_C17 ==
    \A f \in Fingers : \A v \in PyBool :
        ReadThrice(f, v) => prev_states[f] = v

\* a finger recorded as down through the first two of three cycles that read
\* it up is recorded as up after the third
W_C17 ==
    \E f \in Fingers :
        /\ ReadThrice(f, PyTrue)
        /\ \A k \in 1..Len(hist) : hist[k].before[f] = PyFalse
        /\ prev_states[f] = PyTrue

\* every thread has made at most MAX_RETRIES attempts, has ended only after
\* at least one, has ended with a 200 response if it got one, and has ended
\* if it has made MAX_RETRIES attempts
BoundedAttempts ==
    \A i \in 1..Len(threads) :
        /\ Len(threads[i].outcomes) <= MAX_RETRIES
        /\ Ended(i) => Len(threads[i].outcomes) >= 1
        /\ \A k \in 1..Len(threads[i].outcomes) :
              threads[i].outcomes[k] = "ok" =>
                  (k = Len(threads[i].outcomes) /\ Ended(i))
        /\ Len(threads[i].outcomes) = MAX_RETRIES => Ended(i)

\* C18: whatever the outcomes of its attempts, a delivery thread makes at
\* least one and at most MAX_RETRIES attempts, none after a 200 response, and
\* has ended once MAX_RETRIES attempts are made; a thread that has ended
\* makes no further attempt, and a step of a delivery thread starts no thread.
T_C18 ==
    /\ [] BoundedAttempts
    /\ [][/\ \A i \in 1..Len(threads) :
                Ended(i) => (Len(threads') >= i /\ threads'[i] = threads[i])
          /\ Deliver => Len(threads') = Len(threads)
         ]_vars

\* one thread has ended on a 200 response to its second attempt and another
\* on an exception in its first
W_C18 ==
    \E i, j \in 1..Len(threads) :
        /\ Ended(i)
        /\ threads[i].outcomes = <<"read_timeout", "ok">>
        /\ Ended(j)
        /\ threads[j].outcomes = <<"error">>

\* C19: a finger's recorded StableState, once True or False, is not None
\* after any later step, whether the flag is true or false; and a finger
\* whose recorded StableState is None has not yet had a full unanimous window.
T_C19 ==
    [][\A f \in Fingers :
          /\ prev_states[f] /= None => prev_states'[f] /= None
          /\ prev_states'[f] = None => f \notin seen_unanimous'
      ]_vars

\* after a finger was determined the connection was lost and a cycle ran
\* with the flag false: the finger is still determined, while another finger
\* is still unknown
W_C19 ==
    /\ ~ esp32_connected
    /\ probe.events = <<"lost">>
    /\ hist /= <<>>
    /\ LastCycle.sent /= <<>>
    /\ sent = <<>>
    /\ \E f, g \in Fingers :
          /\ prev_states[f] /= None
          /\ f \in seen_unanimous
          /\ prev_states[g] = None

\* C20: in the main loop, with frames read for ever and time going on, once
\* the controller answers every status probe with 200 (and the clock is
\* followed for at least one more CONNECTION_CHECK_INTERVAL) the flag
\* becomes true; once true with the controller recovered it stays true; and
\* with the flag true every frame that changes a finger's recorded
\* StableState dispatches that finger's command.
T_C20 ==
    /\ (recovered /\ now + CONNECTION_CHECK_INTERVAL <= MaxTime)
          ~> esp32_connected
    /\ [][(recovered /\ esp32_connected) => esp32_connected']_vars
    /\ [][\A f \in Fingers :
            (esp32_connected /\ prev_states'[f] /= prev_states[f])
                => HasCmd(sent', f)]_vars

\* the probe at the start of main() failed, the controller has recovered,
\* the second probe, made from the loop one interval later, has taken the flag
\* from false to true, and a later frame has dispatched a finger's command
W_C20 ==
    /\ recovered
    /\ pc = "loop"
    /\ probe.probed
    /\ ~ probe.was
    /\ probe.at = <<2 * CONNECTION_CHECK_INTERVAL>>
    /\ esp32_connected
    /\ \E f \in Fingers : HasCmd(sent, f)

=============================================================================
